---------------------------- MODULE Spec2Model ----------------------------
(***************************************************************************)
(* Model of src/data_analysis.py: main() and the two analyses it runs,     *)
(* analyze_insurance_data and analyze_claim_data, over insurance.csv and   *)
(* claim_data.csv.                                                         *)
(*                                                                         *)
(* Representation.                                                         *)
(*  - A csv file is a record [exists, parses, columns, rows]; a DataFrame  *)
(*    is a record [columns, rows], rows a sequence of functions from       *)
(*    column name to cell.                                                 *)
(*  - A missing cell is NaN in a numeric column and "" in a text column.   *)
(*  - bmi is held in hundredths (18.5 is 1850), money in whole dollars.    *)
(*  - A float result is the exact fraction [num, den]; den = 0 is the      *)
(*    float NaN (0/0, the mean of nothing).  Rounding happens only where   *)
(*    the code formats a number for printing (Fmt2).                       *)
(*  - A pandas Series is a sequence of [key, val] entries, in index order. *)
(***************************************************************************)
EXTENDS Integers, Sequences, FiniteSets, TLC

\* ---------------------------------------------------------------- bounds
MaxRows == 2
MaxClaims == 2
MaxBmi == 3200
MaxLacking == 1

\* ------------------------------------------------------------ cell values
NaN == -1

NumericCols ==
    {"age", "bmi", "children", "charges", "Billed Amount", "Allowed Amount",
     "Paid Amount", "Denied"}

\* pandas.isna of the cell of column c.
isna(c, v) == IF c \in NumericCols THEN v = NaN ELSE v = ""

RECURSIVE SumSeq(_)
SumSeq(s) == IF s = <<>> THEN 0 ELSE Head(s) + SumSeq(Tail(s))

\* Mean with the division by the count left out.
Mean_undivided(vals) == [num |-> SumSeq(vals), den |-> IF vals = <<>> THEN 0 ELSE 1]

\* Series.mean(): sum / count, NaN (0/0) for no values.
Mean(vals) == [num |-> SumSeq(vals), den |-> Len(vals)]

IsNaNF(x) == x.den = 0
EqF(x, y) == ~IsNaNF(x) /\ ~IsNaNF(y) /\ x.num * y.den = y.num * x.den
LtF(x, y) == ~IsNaNF(x) /\ ~IsNaNF(y) /\ x.num * y.den < y.num * x.den
Times100(x) == [num |-> 100 * x.num, den |-> x.den]
Zero == [num |-> 0, den |-> 1]

\* format(x, ".2f"): the number in hundredths, rounded half to even; nan stays nan.
Fmt2(x) ==
    IF IsNaNF(x) THEN NaN
    ELSE LET n == 100 * x.num
             q == n \div x.den
             r == n % x.den
         IN  IF 2 * r < x.den THEN q
             ELSE IF 2 * r > x.den THEN q + 1
             ELSE IF q % 2 = 0 THEN q ELSE q + 1

\* str.capitalize() on the region labels.
capitalize(s) ==
    CASE s = "northeast" -> "Northeast"
      [] s = "northwest" -> "Northwest"
      [] s = "southeast" -> "Southeast"
      [] s = "southwest" -> "Southwest"
      [] OTHER -> s

\* The order in which groupby lists its keys: sorted, as Python orders strings.
SortedLabels ==
    << "Commercial", "Medicaid", "Medicare", "Normal", "Obese", "Overweight",
       "Underweight", "northeast", "northwest", "southeast", "southwest" >>

\* ------------------------------------------------------------- DataFrames
Column(rows, c) == [i \in 1..Len(rows) |-> rows[i][c]]

\* df[mask], the rows that satisfy the mask in order, is SelectSeq(rows, mask).

\* df.dropna(subset=cols)
dropna(rows, cols) == SelectSeq(rows, LAMBDA r : \A c \in cols : ~isna(c, r[c]))

GroupKeys(rows, by) ==
    SelectSeq(SortedLabels, LAMBDA k : \E i \in 1..Len(rows) : rows[i][by] = k)

\* df.groupby(by)[value].mean()
GroupMean(rows, by, value) ==
    LET keys == GroupKeys(rows, by)
    IN  [i \in 1..Len(keys) |->
            [key |-> keys[i],
             val |-> Mean(Column(SelectSeq(rows, LAMBDA r : r[by] = keys[i]), value))]]

\* df.groupby(by)[value].count(): the non-missing cells of value per group.
GroupCount(rows, by, value) ==
    LET keys == GroupKeys(rows, by)
    IN  [i \in 1..Len(keys) |->
            [key |-> keys[i],
             val |-> Len(SelectSeq(rows, LAMBDA r : r[by] = keys[i] /\ ~isna(value, r[value])))]]

Keys(series) == {series[i].key : i \in 1..Len(series)}
At(series, k) == (CHOOSE i \in 1..Len(series) : series[i].key = k)

\* idxmax taking the last occurrence of the maximum.
argmax_last(series) ==
    CHOOSE i \in 1..Len(series) :
        /\ \A j \in 1..Len(series) : ~LtF(series[i].val, series[j].val)
        /\ \A j \in (i + 1)..Len(series) : LtF(series[j].val, series[i].val)

\* Series.idxmax(): the position of the first occurrence of the maximum.
argmax(series) ==
    CHOOSE i \in 1..Len(series) :
        /\ \A j \in 1..Len(series) : ~LtF(series[i].val, series[j].val)
        /\ \A j \in 1..(i - 1) : LtF(series[j].val, series[i].val)

\* Series.sort_values(): any arrangement of the entries in ascending order of
\* value (the default sort is quicksort, which fixes no order among equals).
IsSortedBy(series) ==
    \A i \in 1..(Len(series) - 1) : ~LtF(series[i + 1].val, series[i].val)

Arrangements(series) ==
    {[i \in 1..Len(series) |-> series[p[i]]] :
        p \in {q \in [1..Len(series) -> 1..Len(series)] :
                  \A a, b \in 1..Len(series) : a # b => q[a] # q[b]}}

sort_values(series) == {s \in Arrangements(series) : IsSortedBy(s)}

\* ------------------------------------------------------- categorize_bmi
\* categorize_bmi with the first boundary inclusive-high.
categorize_bmi_inclusive(bmi) ==
    IF bmi # NaN /\ bmi <= 1850 THEN "Underweight"
    ELSE IF bmi # NaN /\ bmi < 2500 THEN "Normal"
    ELSE IF bmi # NaN /\ bmi < 3000 THEN "Overweight"
    ELSE "Obese"

categorize_bmi(bmi) ==
    IF bmi # NaN /\ bmi < 1850 THEN "Underweight"
    ELSE IF bmi # NaN /\ bmi < 2500 THEN "Normal"
    ELSE IF bmi # NaN /\ bmi < 3000 THEN "Overweight"
    ELSE "Obese"


\* ----------------------------------------------------------------- inputs
\* The headers of the two datasets as the file comment lists them (lines 9-19).
InsuranceHeader ==
    {"age", "sex", "bmi", "children", "smoker", "region", "charges"}

ClaimsHeader ==
    {"Claim ID", "Provider ID", "Patient ID", "Date of Service", "Billed Amount",
     "Procedure Code", "Diagnosis Code", "Allowed Amount", "Paid Amount",
     "Insurance Type", "Claim Status", "Reason Code", "Follow-up Required",
     "AR Status", "Outcome"}

PolicyRow(smoker, region, bmi, charges) ==
    [age |-> 30, sex |-> "female", bmi |-> bmi, children |-> 0,
     smoker |-> smoker, region |-> region, charges |-> charges]

ClaimRow(id, billed, itype, status) ==
    [c \in ClaimsHeader |->
        CASE c = "Claim ID" -> id
          [] c = "Billed Amount" -> billed
          [] c = "Insurance Type" -> itype
          [] c = "Claim Status" -> status
          [] c \in {"Allowed Amount", "Paid Amount"} -> 100
          [] OTHER -> "x"]

Missing(c) == IF c \in NumericCols THEN NaN ELSE ""
Without(row, c) == [row EXCEPT ![c] = Missing(c)]
Restrict(row, cols) == [c \in cols |-> row[c]]
RestrictAll(rows, cols) == [i \in 1..Len(rows) |-> Restrict(rows[i], cols)]

Absent == [exists |-> FALSE, parses |-> FALSE, columns |-> {}, rows |-> <<>>]
Corrupt == [exists |-> TRUE, parses |-> FALSE, columns |-> {}, rows |-> <<>>]
Table(cols, rows) == [exists |-> TRUE, parses |-> TRUE, columns |-> cols, rows |-> rows]

SeqsUpTo(S, n) == UNION {[1..k -> S] : k \in 0..n}

\* The three policy rows and the fifteen claim rows of the worked examples.
ExamplePolicyRows ==
    << PolicyRow("yes", "southwest", 2790, 20000),
       PolicyRow("no", "southeast", 3377, 5000),
       PolicyRow("yes", "northwest", 2200, 30000) >>

ExampleClaimRows ==
    [i \in 1..15 |->
        ClaimRow("id",
                 IF i % 2 = 0 THEN 300 ELSE 150,
                 IF i <= 10 THEN "Commercial" ELSE "Medicare",
                 IF i <= 3 THEN "Denied" ELSE "Paid")]

ExamplePolicy == Table(InsuranceHeader, ExamplePolicyRows)
ExampleClaims == Table(ClaimsHeader, ExampleClaimRows)

\* An insurance.csv that holds its header and no row.
EmptyPolicy == Table(InsuranceHeader, <<>>)

\* Two claims of the example (one denied, one paid), the claims file beside
\* the large families of policy files.
FewClaims == Table(ClaimsHeader, SubSeq(ExampleClaimRows, 3, 4))

\* Tables whose header lacks between 1 and MaxLacking of the expected columns.
LackingSets(cols) ==
    {L \in SUBSET cols : Cardinality(L) >= 1 /\ Cardinality(L) <= MaxLacking}

PolicyLacking ==
    {Table(InsuranceHeader \ L,
           RestrictAll(ExamplePolicyRows, InsuranceHeader \ L)) :
        L \in LackingSets(InsuranceHeader)}

ClaimsLacking ==
    {Table(ClaimsHeader \ L, RestrictAll(ExampleClaimRows, ClaimsHeader \ L)) :
        L \in LackingSets(ClaimsHeader)}

\* Policy rows: every field present, or exactly one field missing.
CompletePolicyRows ==
    {PolicyRow(s, g, b, c) :
        s \in {"yes", "no"}, g \in {"northeast", "southwest"},
        b \in {2400, 3000}, c \in {5000, 20000, 30000}}

PolicyRows ==
    CompletePolicyRows \cup
    {Without(PolicyRow("yes", "northeast", 3000, 30000), c) : c \in InsuranceHeader}

PolicyTables ==
    {Table(InsuranceHeader, rows) : rows \in SeqsUpTo(PolicyRows, MaxRows)}

\* One-row policy tables over every bmi up to MaxBmi (in hundredths).
BmiTables ==
    {Table(InsuranceHeader, << PolicyRow("no", "southeast", b, 5000) >>) :
        b \in 0..MaxBmi}

\* Claim rows: the four fields the analysis reads vary; a row may miss its
\* Claim ID, or one of the three key fields, or a field the analysis never reads.
ClaimRows ==
    {ClaimRow(id, b, t, s) :
        id \in {"id", ""}, b \in {200, 300},
        t \in {"Commercial", "Medicare", "Medicaid"}, s \in {"Denied", "Paid"}}
    \cup
    {Without(ClaimRow("id", 300, "Commercial", "Denied"), c) :
        c \in {"Billed Amount", "Insurance Type", "Claim Status", "Provider ID"}}

ClaimTables ==
    {Table(ClaimsHeader, rows) : rows \in SeqsUpTo(ClaimRows, MaxClaims)}

\* The working directories a run starts in: the two files vary over the small
\* families together, and each over its large family beside the other's example.
Directories ==
    ({Absent, Corrupt, ExamplePolicy, EmptyPolicy} \cup PolicyLacking)
        \X ({Absent, Corrupt, ExampleClaims} \cup ClaimsLacking)
    \cup ((PolicyTables \cup BmiTables) \X {FewClaims})
    \cup ({ExamplePolicy} \X ClaimTables)

\* ------------------------------------------------------------------ state
VARIABLES
    insurance_csv, claim_data_csv,      \* the two files in the working directory
    pc,                                 \* the line main() or its callee is at
    stdout, charts,                     \* what was printed, what savefig wrote
    df_insurance,                       \* main / analyze_insurance_data: df
    avg_charges_smokers, avg_charges_nonsmokers,
    charges_by_region, highest_region, highest_charges,
    charges_by_bmi, highest_bmi_cat, highest_bmi_charges,
    df_claims,                          \* main / analyze_claim_data: df_claims
    df_filtered, total_by_type, denied_by_type, denied_percentage,
    correlation, high_billed, denied_high, denied_low

files == << insurance_csv, claim_data_csv >>
insuranceLocals ==
    << df_insurance, avg_charges_smokers, avg_charges_nonsmokers, charges_by_region,
       highest_region, highest_charges, charges_by_bmi, highest_bmi_cat,
       highest_bmi_charges >>
claimLocals ==
    << df_claims, df_filtered, total_by_type, denied_by_type, denied_percentage,
       correlation, high_billed, denied_high, denied_low >>
vars == << files, pc, stdout, charts, insuranceLocals, claimLocals >>

\* A name not bound yet.
None == [num |-> 0, den |-> 0]
NoFrame == [columns |-> {}, rows |-> <<>>]

Init ==
    /\ \E d \in Directories : insurance_csv = d[1] /\ claim_data_csv = d[2]
    /\ pc = "L192"
    /\ stdout = <<>>
    /\ charts = {}
    /\ df_insurance = NoFrame
    /\ avg_charges_smokers = None
    /\ avg_charges_nonsmokers = None
    /\ charges_by_region = <<>>
    /\ highest_region = ""
    /\ highest_charges = None
    /\ charges_by_bmi = <<>>
    /\ highest_bmi_cat = ""
    /\ highest_bmi_charges = None
    /\ df_claims = NoFrame
    /\ df_filtered = <<>>
    /\ total_by_type = <<>>
    /\ denied_by_type = <<>>
    /\ denied_percentage = <<>>
    /\ correlation = [cov |-> 0, varx |-> 0, vary |-> 0]
    /\ high_billed = <<>>
    /\ denied_high = None
    /\ denied_low = None

\* ---------------------------------------------------------------- helpers
Say(lines) == stdout' = stdout \o lines
Line(text) == [text |-> text]
Amount(text, x) == [text |-> text, value |-> Fmt2(x)]
Labelled(text, label, x) == [text |-> text, label |-> label, value |-> Fmt2(x)]

\* The lines the two "for key, value in series.items(): print" loops write.
ItemLines(text, labels, series) ==
    [i \in 1..Len(series) |-> Labelled(text, labels[i], series[i].val)]

\* plot_bar_chart: savefig writes the file, then the confirmation is printed.
Chart(data, output_filename) == [file |-> output_filename, bars |-> data]
SavedLine(output_filename) == [text |-> "A bar chart has been saved as", file |-> output_filename]

\* ------------------------------------------------------------------- main
\* The validation naming only the columns the analysis reads.
analysed_insurance_cols == {"bmi", "smoker", "region", "charges"}

expected_insurance_cols ==
    {"age", "sex", "bmi", "children", "smoker", "region", "charges"}

CheckInsuranceFile ==
    /\ pc = "L192"
    /\ IF ~insurance_csv.exists
       THEN /\ Say(<< Line("Error: 'insurance.csv' file not found.") >>)
            /\ pc' = "returned"
       ELSE /\ pc' = "L196"
            /\ UNCHANGED stdout
    /\ UNCHANGED << files, charts, insuranceLocals, claimLocals >>

\* main without the second existence check.
CheckClaimFile_skipped ==
    /\ pc = "L196"
    /\ pc' = "L201"
    /\ UNCHANGED << files, stdout, charts, insuranceLocals, claimLocals >>

CheckClaimFile ==
    /\ pc = "L196"
    /\ IF ~claim_data_csv.exists
       THEN /\ Say(<< Line("Error: 'claim_data.csv' file not found.") >>)
            /\ pc' = "returned"
       ELSE /\ pc' = "L201"
            /\ UNCHANGED stdout
    /\ UNCHANGED << files, charts, insuranceLocals, claimLocals >>

LoadInsurance ==
    /\ pc = "L201"
    /\ IF ~insurance_csv.parses
       THEN /\ Say(<< Line("Error loading insurance.csv:") >>)
            /\ pc' = "returned"
            /\ UNCHANGED df_insurance
       ELSE /\ df_insurance' = [columns |-> insurance_csv.columns, rows |-> insurance_csv.rows]
            /\ pc' = "L208"
            /\ UNCHANGED stdout
    /\ UNCHANGED << files, charts, avg_charges_smokers, avg_charges_nonsmokers,
                    charges_by_region, highest_region, highest_charges, charges_by_bmi,
                    highest_bmi_cat, highest_bmi_charges, claimLocals >>

ValidateInsurance ==
    /\ pc = "L208"
    /\ IF ~(expected_insurance_cols \subseteq df_insurance.columns)
       THEN /\ Say(<< Line("Error: The insurance dataset does not have the expected columns.") >>)
            /\ pc' = "returned"
       ELSE /\ pc' = "L213"
            /\ UNCHANGED stdout
    /\ UNCHANGED << files, charts, insuranceLocals, claimLocals >>

DropnaInsurance ==
    /\ pc = "L213"
    /\ df_insurance' = [df_insurance EXCEPT !.rows = dropna(@, df_insurance.columns)]
    /\ pc' = "L70"
    /\ UNCHANGED << files, stdout, charts, avg_charges_smokers, avg_charges_nonsmokers,
                    charges_by_region, highest_region, highest_charges, charges_by_bmi,
                    highest_bmi_cat, highest_bmi_charges, claimLocals >>

\* ------------------------------------------------- analyze_insurance_data
\* Series.max(): the value idxmax points at.
smax(series) == series[argmax(series)].val

\* A. Average charges for smokers vs non-smokers (lines 70-81).
AvgBySmoker ==
    /\ pc = "L70"
    /\ LET smokers == SelectSeq(df_insurance.rows, LAMBDA r : r["smoker"] = "yes")
           nonsmokers == SelectSeq(df_insurance.rows, LAMBDA r : r["smoker"] = "no")
       IN  /\ avg_charges_smokers' = Mean(Column(smokers, "charges"))
           /\ avg_charges_nonsmokers' = Mean(Column(nonsmokers, "charges"))
    /\ Say(<< Line("=== Insurance Data Analysis ==="),
              Line("A. Average Charges by Smoking Status"),
              Amount("   Smokers: $", avg_charges_smokers'),
              Amount("   Non-Smokers: $", avg_charges_nonsmokers'),
              Line("") >>)
    /\ pc' = "L84"
    /\ UNCHANGED << files, charts, df_insurance, charges_by_region, highest_region,
                    highest_charges, charges_by_bmi, highest_bmi_cat,
                    highest_bmi_charges, claimLocals >>

\* B. Region with the highest average charges, and its chart (lines 84-100).
AvgByRegion ==
    /\ pc = "L84"
    /\ charges_by_region' = GroupMean(df_insurance.rows, "region", "charges")
    /\ \/ /\ charges_by_region' = <<>>          \* idxmax of nothing: ValueError
          /\ Say(<< Line("B. Average Charges by Region") >>)
          /\ pc' = "raised"
          /\ UNCHANGED << charts, highest_region, highest_charges >>
       \/ /\ charges_by_region' # <<>>
          /\ highest_region' = charges_by_region'[argmax(charges_by_region')].key
          /\ highest_charges' = smax(charges_by_region')
          /\ Say(<< Line("B. Average Charges by Region") >>
                 \o ItemLines("   region: $",
                              [i \in 1..Len(charges_by_region') |->
                                  capitalize(charges_by_region'[i].key)],
                              charges_by_region')
                 \o << Line(""),
                       Labelled("   The region with the highest average charges is",
                                capitalize(highest_region'), highest_charges'),
                       Line(""),
                       SavedLine("charges_by_region.png") >>)
          /\ charts' = charts \cup {Chart(charges_by_region', "charges_by_region.png")}
          /\ pc' = "L103"
    /\ UNCHANGED << files, df_insurance, avg_charges_smokers, avg_charges_nonsmokers,
                    charges_by_bmi, highest_bmi_cat, highest_bmi_charges, claimLocals >>

\* df['bmi_category'] = df['bmi'].apply(categorize_bmi)
WithBmiCategory(df) ==
    [columns |-> df.columns \cup {"bmi_category"},
     rows |-> [i \in 1..Len(df.rows) |->
                 [c \in (DOMAIN df.rows[i]) \cup {"bmi_category"} |->
                     IF c = "bmi_category" THEN categorize_bmi(df.rows[i]["bmi"])
                     ELSE df.rows[i][c]]]]

\* C. Charges by BMI category, and its chart (lines 103-120).
AvgByBmi ==
    /\ pc = "L103"
    /\ df_insurance' = WithBmiCategory(df_insurance)
    /\ charges_by_bmi' \in sort_values(GroupMean(df_insurance'.rows, "bmi_category", "charges"))
    /\ highest_bmi_cat' = charges_by_bmi'[argmax(charges_by_bmi')].key
    /\ highest_bmi_charges' = smax(charges_by_bmi')
    /\ Say(<< Line("C. Average Charges by BMI Category") >>
           \o ItemLines("   category: $",
                        [i \in 1..Len(charges_by_bmi') |-> charges_by_bmi'[i].key],
                        charges_by_bmi')
           \o << Line(""),
                 Labelled("   The BMI category with the highest average charges is",
                          highest_bmi_cat', highest_bmi_charges'),
                 Line(""),
                 SavedLine("charges_by_bmi_category.png") >>)
    /\ charts' = charts \cup {Chart(charges_by_bmi', "charges_by_bmi_category.png")}
    /\ pc' = "L219"
    /\ UNCHANGED << files, avg_charges_smokers, avg_charges_nonsmokers, charges_by_region,
                    highest_region, highest_charges, claimLocals >>

\* ----------------------------------------------------- main, second half
LoadClaims ==
    /\ pc = "L219"
    /\ IF ~claim_data_csv.parses
       THEN /\ Say(<< Line("Error loading claim_data.csv:") >>)
            /\ pc' = "returned"
            /\ UNCHANGED df_claims
       ELSE /\ df_claims' = [columns |-> claim_data_csv.columns, rows |-> claim_data_csv.rows]
            /\ pc' = "L128"
            /\ UNCHANGED stdout
    /\ UNCHANGED << files, charts, insuranceLocals, df_filtered, total_by_type,
                    denied_by_type, denied_percentage, correlation, high_billed,
                    denied_high, denied_low >>

\* ----------------------------------------------------- analyze_claim_data
expected_cols ==
    {"Claim ID", "Provider ID", "Patient ID", "Date of Service", "Billed Amount",
     "Procedure Code", "Diagnosis Code", "Allowed Amount", "Paid Amount",
     "Insurance Type", "Claim Status", "Reason Code", "Follow-up Required",
     "AR Status", "Outcome"}

\* The schema check (lines 128-139): a warning, and the analysis goes on.
ClaimsSchema ==
    /\ pc = "L128"
    /\ Say(<< Line("=== Claims Data Analysis ===") >>
           \o IF ~(expected_cols \subseteq df_claims.columns)
              THEN << Line("Warning: 'claim_data.csv' does not have all the expected columns. Adjust the code accordingly.") >>
              ELSE <<>>)
    /\ pc' = "L142"
    /\ UNCHANGED << files, charts, insuranceLocals, claimLocals >>

key_columns == {"Insurance Type", "Claim Status", "Billed Amount"}

\* df_claims.dropna(subset=[...]) (line 142): KeyError if a named column is absent.
ClaimsDropna ==
    /\ pc = "L142"
    /\ \/ /\ ~(key_columns \subseteq df_claims.columns)
          /\ pc' = "raised"
          /\ UNCHANGED df_claims
       \/ /\ key_columns \subseteq df_claims.columns
          /\ df_claims' = [df_claims EXCEPT !.rows = dropna(@, key_columns)]
          /\ pc' = "L146"
    /\ UNCHANGED << files, stdout, charts, insuranceLocals, df_filtered, total_by_type,
                    denied_by_type, denied_percentage, correlation, high_billed,
                    denied_high, denied_low >>

\* a / b on two Series: aligned on the union of their keys, NaN where either
\* side has no entry; the quotient of two counts is the fraction itself.
Divide(a, b) ==
    LET keys == SelectSeq(SortedLabels, LAMBDA k : k \in Keys(a) \cup Keys(b))
    IN  [i \in 1..Len(keys) |->
            [key |-> keys[i],
             val |-> IF keys[i] \in Keys(a) /\ keys[i] \in Keys(b)
                     THEN [num |-> a[At(a, keys[i])].val, den |-> b[At(b, keys[i])].val]
                     ELSE None]]

ScaleSeries(series) ==
    [i \in 1..Len(series) |-> [series[i] EXCEPT !.val = Times100(@)]]

\* Series.fillna(0)
fillna(series) ==
    [i \in 1..Len(series) |-> [series[i] EXCEPT !.val = IF IsNaNF(@) THEN Zero ELSE @]]

\* D. Percentage of denied claims by insurance type, and its chart (lines 146-164).
DeniedByType ==
    /\ pc = "L146"
    /\ df_filtered' = SelectSeq(df_claims.rows,
                             LAMBDA r : r["Insurance Type"] \in {"Commercial", "Medicare"})
    /\ \/ /\ "Claim ID" \notin df_claims.columns       \* ['Claim ID']: KeyError
          /\ pc' = "raised"
          /\ UNCHANGED << stdout, charts, total_by_type, denied_by_type, denied_percentage >>
       \/ /\ "Claim ID" \in df_claims.columns
          /\ total_by_type' = GroupCount(df_filtered', "Insurance Type", "Claim ID")
          /\ denied_by_type' =
                GroupCount(SelectSeq(df_filtered', LAMBDA r : r["Claim Status"] = "Denied"),
                           "Insurance Type", "Claim ID")
          /\ denied_percentage' = fillna(ScaleSeries(Divide(denied_by_type', total_by_type')))
          /\ \/ /\ denied_percentage' # <<>>
                /\ Say(<< Line("D. Percentage of Denied Claims by Insurance Type") >>
                       \o ItemLines("   itype: % denied",
                                    [i \in 1..Len(denied_percentage') |->
                                        denied_percentage'[i].key],
                                    denied_percentage')
                       \o << SavedLine("denied_claims_by_insurance_type.png"), Line("") >>)
                /\ charts' = charts \cup
                      {Chart(denied_percentage', "denied_claims_by_insurance_type.png")}
                /\ pc' = "L168"
             \* A bar plot of an empty Series is pandas' affair, not this
             \* source's: it may raise (IndexError while the ticks are placed)
             \* or draw a chart without bars; both outcomes are kept.
             \/ /\ denied_percentage' = <<>>
                /\ Say(<< Line("D. Percentage of Denied Claims by Insurance Type") >>)
                /\ pc' = "raised"
                /\ UNCHANGED charts
             \/ /\ denied_percentage' = <<>>
                /\ Say(<< Line("D. Percentage of Denied Claims by Insurance Type"),
                          SavedLine("denied_claims_by_insurance_type.png"), Line("") >>)
                /\ charts' = charts \cup
                      {Chart(denied_percentage', "denied_claims_by_insurance_type.png")}
                /\ pc' = "L168"
    /\ UNCHANGED << files, insuranceLocals, df_claims, correlation, high_billed,
                    denied_high, denied_low >>

\* df_claims['Denied'] = (df_claims['Claim Status'] == 'Denied').astype(int)
WithDenied(df) ==
    [columns |-> df.columns \cup {"Denied"},
     rows |-> [i \in 1..Len(df.rows) |->
                 [c \in (DOMAIN df.rows[i]) \cup {"Denied"} |->
                     IF c = "Denied"
                     THEN (IF df.rows[i]["Claim Status"] = "Denied" THEN 1 ELSE 0)
                     ELSE df.rows[i][c]]]]

RECURSIVE Dot(_, _)
Dot(xs, ys) == IF xs = <<>> THEN 0 ELSE Head(xs) * Head(ys) + Dot(Tail(xs), Tail(ys))

\* Series.corr: Pearson's r is cov / sqrt(varx * vary), held as the three
\* moments (each times n squared); r is nan when either variance is zero.
corr(xs, ys) ==
    LET n == Len(xs)
    IN  [cov |-> n * Dot(xs, ys) - SumSeq(xs) * SumSeq(ys),
         varx |-> n * Dot(xs, xs) - SumSeq(xs) * SumSeq(xs),
         vary |-> n * Dot(ys, ys) - SumSeq(ys) * SumSeq(ys)]

\* The threshold comparison written >=.
at_least_200(billed) == [i \in 1..Len(billed) |-> billed[i] # NaN /\ billed[i] >= 200]

\* df_claims['Billed Amount'] > 200, a comparison with NaN being False.
over_200(billed) == [i \in 1..Len(billed) |-> billed[i] # NaN /\ billed[i] > 200]

\* ~mask
Not(mask) == [i \in 1..Len(mask) |-> ~mask[i]]

\* df[mask] for a boolean Series.
RECURSIVE Masked(_, _)
Masked(rows, mask) ==
    IF rows = <<>> THEN <<>>
    ELSE (IF Head(mask) THEN << Head(rows) >> ELSE <<>>) \o Masked(Tail(rows), Tail(mask))

\* E. Correlation of denial with billed amount; denial rate above and at or
\* below $200 (lines 168-188).
DenialVsBilled ==
    /\ pc = "L168"
    /\ df_claims' = WithDenied(df_claims)
    /\ correlation' = corr(Column(df_claims'.rows, "Denied"),
                           Column(df_claims'.rows, "Billed Amount"))
    /\ high_billed' = over_200(Column(df_claims'.rows, "Billed Amount"))
    /\ denied_high' = Times100(Mean(Column(Masked(df_claims'.rows, high_billed'), "Denied")))
    /\ denied_low' = Times100(Mean(Column(Masked(df_claims'.rows, Not(high_billed')), "Denied")))
    /\ Say(<< Line("E. Correlation between Denial Status and Billed Amount"),
              [text |-> "   Pearson correlation:", value |-> correlation'],
              Line("   (A positive correlation means as Billed Amount increases, denial likelihood tends to increase.)"),
              Line(""),
              Amount("   Percentage of denied claims when Billed Amount > $200: %", denied_high'),
              Amount("   Percentage of denied claims when Billed Amount <= $200: %", denied_low'),
              Line("") >>)
    /\ pc' = "L228"
    /\ UNCHANGED << files, charts, insuranceLocals, df_filtered, total_by_type,
                    denied_by_type, denied_percentage >>

Complete ==
    /\ pc = "L228"
    /\ Say(<< Line("Analysis complete.") >>)
    /\ pc' = "returned"
    /\ UNCHANGED << files, charts, insuranceLocals, claimLocals >>

Next ==
    \/ CheckInsuranceFile
    \/ CheckClaimFile
    \/ LoadInsurance
    \/ ValidateInsurance
    \/ DropnaInsurance
    \/ AvgBySmoker
    \/ AvgByRegion
    \/ AvgByBmi
    \/ LoadClaims
    \/ ClaimsSchema
    \/ ClaimsDropna
    \/ DeniedByType
    \/ DenialVsBilled
    \/ Complete

Spec == Init /\ [][Next]_vars

\* ================================================================ claims
\* What the claims speak of, stated over the rows themselves.
Printed(text) == \E i \in 1..Len(stdout) : stdout[i].text = text
ChartFiles == {c.file : c \in charts}

Where(rows, P(_)) == {i \in 1..Len(rows) : P(rows[i])}

RECURSIVE Total(_, _, _)
Total(rows, S, c) ==
    IF S = {} THEN 0
    ELSE LET i == CHOOSE j \in S : TRUE
         IN  rows[i][c] + Total(rows, S \ {i}, c)

\* x is the arithmetic mean of column c over the rows S (S not empty).
IsMeanOver(x, rows, S, c) ==
    x.den # 0 /\ x.num * Cardinality(S) = Total(rows, S, c) * x.den

\* x is the percentage of the rows S whose Claim Status is Denied (S not empty).
IsDeniedPercentOf(x, rows, S) ==
    /\ x.den # 0
    /\ x.num * Cardinality(S) =
          100 * Cardinality({i \in S : rows[i]["Claim Status"] = "Denied"}) * x.den

PolicyAnalysed == highest_bmi_cat # ""
DenialRatesComputed == pc \in {"L168", "L228"}
ClaimsAnalysed == Printed("E. Correlation between Denial Status and Billed Amount")

\* ---------------------------------------------------------------------
\* C1: categorize_bmi is total and its boundaries are inclusive-low and
\* exclusive-high: every analysed row carries exactly one of the four
\* categories, Underweight iff bmi < 18.5, Normal iff 18.5 <= bmi < 25,
\* Overweight iff 25 <= bmi < 30, Obese iff bmi >= 30.
C1_CategoryBoundaries ==
    "bmi_category" \in df_insurance.columns =>
        \A i \in 1..Len(df_insurance.rows) :
            LET b == df_insurance.rows[i]["bmi"]
                c == df_insurance.rows[i]["bmi_category"]
            IN  /\ c \in {"Underweight", "Normal", "Overweight", "Obese"}
                /\ (c = "Underweight") <=> (b < 1850)
                /\ (c = "Normal") <=> (1850 <= b /\ b < 2500)
                /\ (c = "Overweight") <=> (2500 <= b /\ b < 3000)
                /\ (c = "Obese") <=> (b >= 3000)

\* A row with bmi exactly 18.5 has been categorised, as Normal.
C1_Witness ==
    /\ "bmi_category" \in df_insurance.columns
    /\ \E i \in 1..Len(df_insurance.rows) :
          /\ df_insurance.rows[i]["bmi"] = 1850
          /\ df_insurance.rows[i]["bmi_category"] = "Normal"

\* ---------------------------------------------------------------------
\* C2: the denial-rate result has an entry exactly for each of Commercial
\* and Medicare that has a row among the rows kept by the missing-value
\* filter (rows without a Claim ID included), and the entry is
\* 100 * denied rows of the type / rows of the type.
C2_DenialRateByType ==
    DenialRatesComputed =>
        LET rows == df_claims.rows
            OfType(t) == Where(rows, LAMBDA r : r["Insurance Type"] = t)
        IN  /\ Keys(denied_percentage) =
                   {t \in {"Commercial", "Medicare"} : OfType(t) # {}}
            /\ \A i \in 1..Len(denied_percentage) :
                   OfType(denied_percentage[i].key) # {} =>
                       IsDeniedPercentOf(denied_percentage[i].val, rows,
                                         OfType(denied_percentage[i].key))

\* ---------------------------------------------------------------------
\* C3: if insurance.csv is absent, cannot be parsed, or lacks one of the
\* seven required columns, the run prints one error line and returns: no
\* exception, neither analysis entered, no chart written, and
\* "Analysis complete." never printed.
RequiredColumns == {"age", "sex", "bmi", "children", "smoker", "region", "charges"}

InsuranceUnusable ==
    \/ ~insurance_csv.exists
    \/ ~insurance_csv.parses
    \/ ~(RequiredColumns \subseteq insurance_csv.columns)

ErrorLines ==
    {"Error: 'insurance.csv' file not found.",
     "Error: 'claim_data.csv' file not found.",
     "Error loading insurance.csv:",
     "Error: The insurance dataset does not have the expected columns."}

C3_AbortsOnBadInsurance ==
    InsuranceUnusable =>
        /\ pc \in {"L192", "L196", "L201", "L208", "returned"}
        /\ charts = {}
        /\ ~Printed("=== Insurance Data Analysis ===")
        /\ ~Printed("=== Claims Data Analysis ===")
        /\ ~Printed("Analysis complete.")
        /\ charges_by_region = <<>> /\ charges_by_bmi = <<>> /\ df_claims = NoFrame
        /\ pc = "returned" => (Len(stdout) = 1 /\ stdout[1].text \in ErrorLines)
        /\ pc # "returned" => (stdout = <<>> /\ ENABLED Next)

\* The run has returned on an insurance.csv that parses but lacks a column,
\* beside a claim_data.csv that is in order.
C3_Witness ==
    /\ pc = "returned"
    /\ insurance_csv.parses
    /\ ~(RequiredColumns \subseteq insurance_csv.columns)
    /\ claim_data_csv = ExampleClaims
    /\ stdout = << Line("Error: The insurance dataset does not have the expected columns.") >>

\* ---------------------------------------------------------------------
\* C4: whatever expected columns the claims header lacks, the claims
\* analysis prints a warning and goes on: no unhandled exception follows.
C4_LackingColumnsOnlyWarn ==
    (Printed("=== Claims Data Analysis ===")
        /\ ~(ClaimsHeader \subseteq claim_data_csv.columns)) =>
        /\ Printed("Warning: 'claim_data.csv' does not have all the expected columns. Adjust the code accordingly.")
        /\ pc # "raised"

\* ---------------------------------------------------------------------
\* C5: a rate whose denominator count is zero is NaN, never a number: the
\* per-type denial percentage where the type's total count is 0, and either
\* threshold percentage where its bucket has no row.
C5_ZeroDenominatorIsNaN ==
    /\ DenialRatesComputed =>
          \A i \in 1..Len(total_by_type) :
              total_by_type[i].val = 0 =>
                  /\ total_by_type[i].key \in Keys(denied_percentage)
                  /\ IsNaNF(denied_percentage[At(denied_percentage,
                                                 total_by_type[i].key)].val)
    /\ ClaimsAnalysed =>
          /\ (\A i \in 1..Len(high_billed) : ~high_billed[i]) => IsNaNF(denied_high)
          /\ (\A i \in 1..Len(high_billed) : high_billed[i]) => IsNaNF(denied_low)

\* ---------------------------------------------------------------------
\* C6: in the threshold split every row kept by the missing-value filter is
\* in exactly one of the buckets Billed Amount > 200 and Billed Amount <= 200,
\* the two bucket counts add up to the row count, and each percentage is
\* 100 * denied rows of the bucket / rows of the bucket.
Above200 == Where(df_claims.rows, LAMBDA r : r["Billed Amount"] > 200)
AtMost200 == Where(df_claims.rows, LAMBDA r : r["Billed Amount"] <= 200)

IsBucketRate(x, S) ==
    IF S = {} THEN IsNaNF(x) ELSE IsDeniedPercentOf(x, df_claims.rows, S)

C6_ThresholdSplit ==
    ClaimsAnalysed =>
        /\ \A i \in 1..Len(df_claims.rows) : df_claims.rows[i]["Billed Amount"] # NaN
        /\ Len(high_billed) = Len(df_claims.rows)
        /\ {i \in 1..Len(high_billed) : high_billed[i]} = Above200
        /\ {i \in 1..Len(high_billed) : ~high_billed[i]} = AtMost200
        /\ Above200 \cap AtMost200 = {}
        /\ denied_high.den + denied_low.den = Len(df_claims.rows)
        /\ denied_high.den = Cardinality(Above200)
        /\ denied_low.den = Cardinality(AtMost200)
        /\ IsBucketRate(denied_high, Above200)
        /\ IsBucketRate(denied_low, AtMost200)

\* The split has run on rows that include a denied claim billed exactly 200
\* and a claim billed more.
C6_Witness ==
    /\ ClaimsAnalysed
    /\ Above200 # {}
    /\ \E i \in AtMost200 :
          /\ df_claims.rows[i]["Billed Amount"] = 200
          /\ df_claims.rows[i]["Claim Status"] = "Denied"

\* ---------------------------------------------------------------------
\* C7: each grouped average (charges by smoker status, by region, by
\* bmi_category) has an entry exactly for each group value that occurs in
\* the data, none for a group without rows, and each entry is the sum of the
\* group's charges over its number of rows.
GroupOf(c, k) == Where(df_insurance.rows, LAMBDA r : r[c] = k)
Occurring(c) == {df_insurance.rows[i][c] : i \in 1..Len(df_insurance.rows)}

\* Analysis A's result: the two averages it computes and prints.
SmokerResult ==
    << [key |-> "yes", val |-> avg_charges_smokers],
       [key |-> "no", val |-> avg_charges_nonsmokers] >>

EntriesAreMeans(series, c) ==
    \A i \in 1..Len(series) :
        GroupOf(c, series[i].key) # {} =>
            IsMeanOver(series[i].val, df_insurance.rows, GroupOf(c, series[i].key), "charges")

IsGroupedAverage(series, c) ==
    /\ Keys(series) = Occurring(c)
    /\ Cardinality(Keys(series)) = Len(series)
    /\ EntriesAreMeans(series, c)

C7_GroupedAverages ==
    PolicyAnalysed =>
        /\ IsGroupedAverage(SmokerResult, "smoker")
        /\ IsGroupedAverage(charges_by_region, "region")
        /\ IsGroupedAverage(charges_by_bmi, "bmi_category")

\* C7 as amended: by region and by bmi_category as stated; by smoker
\* status the result always has the two entries yes and no, each the mean of
\* charges over its rows, and NaN when it has no row.
C7_GroupedAveragesAmended ==
    PolicyAnalysed =>
        /\ IsGroupedAverage(charges_by_region, "region")
        /\ IsGroupedAverage(charges_by_bmi, "bmi_category")
        /\ EntriesAreMeans(SmokerResult, "smoker")
        /\ \A i \in 1..2 :
              GroupOf("smoker", SmokerResult[i].key) = {} <=> IsNaNF(SmokerResult[i].val)
        /\ \E i \in 1..Len(stdout) :
              stdout[i] = Amount("   Smokers: $", avg_charges_smokers)
        /\ \E i \in 1..Len(stdout) :
              stdout[i] = Amount("   Non-Smokers: $", avg_charges_nonsmokers)

\* The worked example: rows {yes,20000},{no,5000},{yes,30000} analysed, giving
\* yes -> 25000 and, from its single row, no -> 5000.
C7_Witness ==
    /\ PolicyAnalysed
    /\ Column(insurance_csv.rows, "smoker") = << "yes", "no", "yes" >>
    /\ Column(insurance_csv.rows, "charges") = << 20000, 5000, 30000 >>
    /\ EqF(avg_charges_smokers, [num |-> 25000, den |-> 1])
    /\ avg_charges_nonsmokers = [num |-> 5000, den |-> 1]
    /\ Cardinality(Keys(charges_by_region)) = 3

\* ---------------------------------------------------------------------
\* C8: no row with a missing value reaches an aggregate: the policy rows
\* analysed are the file's rows without any missing value; the claim rows
\* analysed are the file's rows that have Insurance Type, Claim Status and
\* Billed Amount, rows missing only other fields being kept and counted by
\* the denial-rate, correlation and threshold-split computations.
HasAll(r, cols) == \A c \in cols : r[c] # Missing(c)

RECURSIVE SumVals(_)
SumVals(series) == IF series = <<>> THEN 0 ELSE Head(series).val + SumVals(Tail(series))

C8_MissingRowsExcluded ==
    /\ Printed("=== Insurance Data Analysis ===") =>
          /\ \A i \in 1..Len(df_insurance.rows) :
                HasAll(df_insurance.rows[i], insurance_csv.columns)
          /\ Len(df_insurance.rows) =
                Cardinality(Where(insurance_csv.rows,
                                  LAMBDA r : HasAll(r, insurance_csv.columns)))
    /\ (DenialRatesComputed \/ ClaimsAnalysed) =>
          /\ \A i \in 1..Len(df_claims.rows) :
                HasAll(df_claims.rows[i], {"Insurance Type", "Claim Status", "Billed Amount"})
          /\ Len(df_claims.rows) =
                Cardinality(Where(claim_data_csv.rows,
                    LAMBDA r : HasAll(r, {"Insurance Type", "Claim Status", "Billed Amount"})))
    /\ DenialRatesComputed =>
          SumVals(total_by_type) =
              Cardinality(Where(df_claims.rows,
                  LAMBDA r : r["Insurance Type"] \in {"Commercial", "Medicare"}))
    /\ ClaimsAnalysed =>
          /\ Len(high_billed) = Len(df_claims.rows)
          /\ denied_high.den + denied_low.den = Len(df_claims.rows)

\* ---------------------------------------------------------------------
\* C9: the group reported as highest (region in B, BMI category in C) has a
\* mean no other group exceeds, the amount reported is its mean, and among
\* groups that share the maximum it is the first in the result's order,
\* which for BMI categories is the order after sorting by ascending mean.
IsFirstMaximum(series, k, v) ==
    /\ k \in Keys(series)
    /\ v = series[At(series, k)].val
    /\ \A j \in 1..Len(series) : ~LtF(v, series[j].val)
    /\ \A j \in 1..(At(series, k) - 1) : LtF(series[j].val, v)

Reported(text, label, v) ==
    \E i \in 1..Len(stdout) :
        stdout[i] = [text |-> text, label |-> label, value |-> Fmt2(v)]

C9_HighestGroup ==
    /\ highest_region # "" =>
          /\ IsFirstMaximum(charges_by_region, highest_region, highest_charges)
          /\ Reported("   The region with the highest average charges is",
                      capitalize(highest_region), highest_charges)
    /\ highest_bmi_cat # "" =>
          /\ \A i \in 1..(Len(charges_by_bmi) - 1) :
                ~LtF(charges_by_bmi[i + 1].val, charges_by_bmi[i].val)
          /\ IsFirstMaximum(charges_by_bmi, highest_bmi_cat, highest_bmi_charges)
          /\ Reported("   The BMI category with the highest average charges is",
                      highest_bmi_cat, highest_bmi_charges)

\* Both reports made where two regions, and two BMI categories, share the
\* maximum mean.
C9_Witness ==
    /\ highest_region # "" /\ highest_bmi_cat # ""
    /\ \E j \in 2..Len(charges_by_region) :
          /\ EqF(charges_by_region[j].val, highest_charges)
          /\ highest_region = charges_by_region[1].key
    /\ \E j \in 2..Len(charges_by_bmi) :
          /\ EqF(charges_by_bmi[j].val, highest_bmi_charges)
          /\ highest_bmi_cat = charges_by_bmi[j - 1].key

\* ---------------------------------------------------------------------
\* C10: main checks that both files exist before it loads either, so with
\* claim_data.csv absent it prints an error and returns with no policy
\* output and no chart, even beside a valid insurance.csv; a claim_data.csv
\* that exists but does not parse is found out only after the whole policy
\* analysis (A to C and both policy charts) has been emitted; and
\* "Analysis complete." is printed only when both analyses ran to the end.
PolicyOutputEmitted ==
    /\ Printed("A. Average Charges by Smoking Status")
    /\ Printed("B. Average Charges by Region")
    /\ Printed("C. Average Charges by BMI Category")
    /\ Printed("   The BMI category with the highest average charges is")
    /\ {"charges_by_region.png", "charges_by_bmi_category.png"} \subseteq ChartFiles
    /\ \E i \in 1..Len(stdout) : stdout[i] = SavedLine("charges_by_bmi_category.png")

C10_MainOrdering ==
    /\ ~claim_data_csv.exists =>
          /\ pc \in {"L192", "L196", "returned"}
          /\ df_insurance = NoFrame
          /\ charts = {}
          /\ ~Printed("=== Insurance Data Analysis ===")
          /\ pc = "returned" =>
                /\ Len(stdout) = 1
                /\ stdout[1].text \in {"Error: 'insurance.csv' file not found.",
                                       "Error: 'claim_data.csv' file not found."}
    /\ Printed("Error loading claim_data.csv:") =>
          /\ PolicyOutputEmitted
          /\ stdout[Len(stdout)] = Line("Error loading claim_data.csv:")
          /\ stdout[Len(stdout) - 1] = SavedLine("charges_by_bmi_category.png")
          /\ ChartFiles = {"charges_by_region.png", "charges_by_bmi_category.png"}
          /\ pc = "returned"
    /\ Printed("Analysis complete.") =>
          /\ PolicyOutputEmitted
          /\ ClaimsAnalysed
          /\ Printed("   Percentage of denied claims when Billed Amount <= $200: %")
          /\ "denied_claims_by_insurance_type.png" \in ChartFiles
          /\ stdout[Len(stdout)] = Line("Analysis complete.")
          /\ pc = "returned"

\* The run has returned on a valid insurance.csv with claim_data.csv absent.
C10_Witness ==
    /\ pc = "returned"
    /\ insurance_csv = ExamplePolicy
    /\ ~claim_data_csv.exists
    /\ stdout = << Line("Error: 'claim_data.csv' file not found.") >>

=============================================================================
